---- MODULE Spec2Model ----
(***************************************************************************)
(* A model of the live voice pipeline driver in src/demo_live.py:          *)
(* run_demo (pre-flight checks, the conversation loop over                 *)
(* CONVERSATION_STEPS), local_asr_transcribe (the ASR transport adapter),  *)
(* neutts_synthesize (the TTS streaming adapter) and the audioop           *)
(* transcoding calls they make.                                            *)
(*                                                                         *)
(* The program is one coroutine: every await is a suspension point and is  *)
(* an action boundary here; the code between two awaits is one action.     *)
(* External collaborators (the ASR server, the dialogue server, the TTS    *)
(* engine, the file system) answer nondeterministically.  pydub's play()   *)
(* blocks until playback has finished and is taken to return normally.     *)
(* External interrupts (KeyboardInterrupt, task cancellation) are not      *)
(* modelled.                                                               *)
(***************************************************************************)
EXTENDS Integers, Sequences, FiniteSets, TLC

\* ------------------------------------------------------------------ bounds
\* Longest reply array the dialogue server returns.
MaxReplies == 2
\* Most chunks the synthesis engine yields for one text.
MaxChunks == 2
\* Most samples (frames times channels) in an input WAV file.
MaxSamples == 7
\* Longest `text` string in a transcription response.
MaxStrLen == 2

\* ------------------------------------------------------- program constants
\* len(CONVERSATION_STEPS)
NumSteps == 5
\* The frame rate the ASR server expects (rate != 8000, ratecv(..., 8000, None)).
TargetRate == 8000

\* ----------------------------------------------------------- small helpers
Min(a, b) == IF a < b THEN a ELSE b

RECURSIVE Gcd(_, _)
Gcd(a, b) == IF b = 0 THEN a ELSE Gcd(b, a % b)

\* C integer division, which truncates toward zero (\div is the floor).
TruncDiv(a, b) == IF a >= 0 THEN a \div b ELSE -((-a) \div b)

\* All sequences over S of length at most n.
SeqsUpTo(S, n) == UNION {[1..k -> S] : k \in 0..n}

\* ------------------------------------------------------------ Python str
\* A str is a sequence of characters; " " stands for any whitespace character
\* and "a" for any other.
Chars == {" ", "a"}
Strings == SeqsUpTo(Chars, MaxStrLen)

RECURSIVE LStrip(_)
LStrip(s) == IF s # <<>> /\ Head(s) = " " THEN LStrip(Tail(s)) ELSE s

RECURSIVE RStrip(_)
RStrip(s) ==
    IF s # <<>> /\ s[Len(s)] = " " THEN RStrip(SubSeq(s, 1, Len(s) - 1)) ELSE s

\* str.strip(): leading and trailing whitespace removed.
Strip(s) == RStrip(LStrip(s))

\* ------------------------------------------------------------- audioop
\* Linear samples are 16-bit two's complement integers; a mu-law buffer is a
\* sequence of bytes 0..255.
Samples == {-1000, 1000}

\* The widths audioop accepts ("Size should be 1, 2, 3 or 4" otherwise).
AudioopWidths == {1, 2, 3, 4}

\* audioop.tomono(frames, width, 0.5, 0.5): each left/right pair becomes
\* floor(0.5 * left + 0.5 * right).
RECURSIVE ToMono(_)
ToMono(frames) ==
    IF Len(frames) < 2 THEN <<>>
    ELSE <<(frames[1] + frames[2]) \div 2>> \o ToMono(SubSeq(frames, 3, Len(frames)))

\* The loop of audioop.ratecv for one channel with state None and the default
\* weights (1, 0): `d` is the phase, prev/cur the last two input samples.
RECURSIVE RateCvLoop(_, _, _, _, _, _)
RateCvLoop(rest, d, prev, cur, inrate, outrate) ==
    IF d < 0
    THEN IF rest = <<>> THEN <<>>
         ELSE RateCvLoop(Tail(rest), d + outrate, cur, Head(rest), inrate, outrate)
    ELSE <<TruncDiv(prev * d + cur * (outrate - d), outrate)>>
         \o RateCvLoop(rest, d - inrate, prev, cur, inrate, outrate)

\* audioop.ratecv(frames, width, 1, rate, 8000, None)[0]
RateCv(frames, inrate, outrate) ==
    LET g == Gcd(inrate, outrate)
    IN  RateCvLoop(frames, -(outrate \div g), 0, 0, inrate \div g, outrate \div g)

\* search(val, seg_uend, 8) of audioop.c: the first segment whose end is >= val.
SegUEnd == <<63, 127, 255, 511, 1023, 2047, 4095, 8191>>
Search(val) ==
    IF \E i \in 1..8 : val <= SegUEnd[i]
    THEN (CHOOSE i \in 1..8 : val <= SegUEnd[i] /\ \A j \in 1..(i - 1) : val > SegUEnd[j]) - 1
    ELSE 8

RECURSIVE Pow2(_)
Pow2(n) == IF n = 0 THEN 1 ELSE 2 * Pow2(n - 1)

\* st_14linear2ulaw: one 14-bit sample to its mu-law byte (bias 0x84 >> 2,
\* clip 8159, code word complemented).
Linear14ToUlaw(v) ==
    LET mag  == Min(IF v < 0 THEN -v ELSE v, 8159) + 33
        mask == IF v < 0 THEN 127 ELSE 255
        seg  == Search(mag)
    IN  IF seg >= 8 THEN mask - 127
        ELSE mask - (seg * 16 + ((mag \div Pow2(seg + 1)) % 16))

\* audioop.lin2ulaw(frames, 2): one byte per 16-bit sample (its top 14 bits).
Lin2Ulaw(frames) == [i \in 1..Len(frames) |-> Linear14ToUlaw(frames[i] \div 4)]

\* st_ulaw2linear16: one mu-law byte to a 16-bit sample.
UlawToLinear16(b) ==
    LET u == 255 - b
        t == (((u % 16) * 8) + 132) * Pow2((u % 128) \div 16)
    IN  IF u >= 128 THEN 132 - t ELSE t - 132

\* A 16-bit sample as its two little-endian bytes.
SampleBytes(v) == LET w == v % 65536 IN <<w % 256, w \div 256>>

\* audioop.ulaw2lin(data, 2): each byte expands to one 2-byte linear sample.
RECURSIVE Ulaw2Lin(_)
Ulaw2Lin(data) ==
    IF data = <<>> THEN <<>>
    ELSE SampleBytes(UlawToLinear16(Head(data))) \o Ulaw2Lin(Tail(data))

\* ------------------------------------------------------------ exceptions
\* The exception types the modelled calls raise; every one is a subclass of
\* Exception.
ConnectErrors == {"OSError", "TimeoutError"}
ReadErrors == {"wave.Error", "EOFError"}
ExceptionTypes ==
    ConnectErrors \cup ReadErrors \cup
    {"audioop.error", "ConnectionClosed", "JSONDecodeError", "AttributeError",
     "TypeError", "ClientError", "ContentTypeError", "RuntimeError"}

\* ------------------------------------------------------------- WAV files
\* What wave.open(...) yields: the header fields and the interleaved samples
\* of readframes(getnframes()).  A 5-byte sample width is accepted by wave
\* and rejected by audioop.
WavChannels == {1, 2, 3}
WavRates == {TargetRate, 16000}
FramesOf(c) == UNION {[1..(n * c) -> Samples] : n \in 0..(MaxSamples \div c)}
WavFiles ==
    UNION {
        {[nchannels |-> c, rate |-> r, width |-> 2, frames |-> f] :
            r \in WavRates, f \in FramesOf(c)}
        \cup
        {[nchannels |-> c, rate |-> r, width |-> 5, frames |-> [i \in 1..(n * c) |-> 0]] :
            r \in WavRates, n \in 0..(MaxSamples \div c)}
        : c \in WavChannels}
NoWav == [nchannels |-> 0, rate |-> 0, width |-> 0, frames |-> <<>>]

\* "if n_channels == 2: frames = audioop.tomono(frames, width, 0.5, 0.5)"
\* (Variant: the mix is never applied.)
NeedsMonoNever(w) == FALSE
NeedsMono(w) == w.nchannels = 2
MonoStep(w) == IF NeedsMono(w) THEN ToMono(w.frames) ELSE w.frames

\* "if rate != 8000: frames, _ = audioop.ratecv(frames, width, 1, rate, 8000, None)"
NeedsResample(w) == w.rate # TargetRate
ResampleStep(w, frames) ==
    IF NeedsResample(w) THEN RateCv(frames, w.rate, TargetRate) ELSE frames

\* The body of "with wave.open(...)": the three audioop calls in order.  Each
\* call checks the width first, and lin2ulaw is always called, so a width
\* audioop rejects raises audioop.error on every path.
\* (Variant: the resampling comes before the mix.)
TranscodeResamplesFirst(w) ==
    IF w.width \notin AudioopWidths
    THEN [raised |-> "audioop.error", frames |-> <<>>, mulaw |-> <<>>]
    ELSE LET res == ResampleStep(w, w.frames)
             enc == IF NeedsMono(w) THEN ToMono(res) ELSE res
         IN  [raised |-> "none", frames |-> enc, mulaw |-> Lin2Ulaw(enc)]
Transcode(w) ==
    IF w.width \notin AudioopWidths
    THEN [raised |-> "audioop.error", frames |-> <<>>, mulaw |-> <<>>]
    ELSE LET enc == ResampleStep(w, MonoStep(w))
         IN  [raised |-> "none", frames |-> enc, mulaw |-> Lin2Ulaw(enc)]

\* ------------------------------------------------- transcription responses
\* The message ws.recv() returns: text that json.loads rejects, or a JSON
\* value.  Of an object only its "text" member matters.
AsrResponses ==
    {[kind |-> k, hasText |-> FALSE, textType |-> "none", text |-> <<>>] :
        k \in {"unparsable", "array", "number", "null", "string", "object"}}
    \cup
    {[kind |-> "object", hasText |-> TRUE, textType |-> t, text |-> <<>>] :
        t \in {"null", "number"}}
    \cup
    {[kind |-> "object", hasText |-> TRUE, textType |-> "str", text |-> s] :
        s \in Strings}
NoResponse == [kind |-> "none", hasText |-> FALSE, textType |-> "none", text |-> <<>>]

\* "data = json.loads(response); return data.get("text", "").strip()"
ParseResponse(r) ==
    IF r.kind = "unparsable" THEN [raised |-> "JSONDecodeError", value |-> <<>>]
    ELSE IF r.kind # "object" THEN [raised |-> "AttributeError", value |-> <<>>]
    ELSE IF ~r.hasText THEN [raised |-> "none", value |-> Strip(<<>>)]
    ELSE IF r.textType # "str" THEN [raised |-> "AttributeError", value |-> <<>>]
    ELSE [raised |-> "none", value |-> Strip(r.text)]

\* The messages of one call, as the connection sees them: the audio as one
\* binary message, the control message json.dumps({"action": "transcribe"}),
\* and the one call of ws.recv().
AudioMessage(data) == [kind |-> "binary", data |-> data]
ControlMessage == [kind |-> "text", data |-> <<"action", "transcribe">>]
RecvCall == [kind |-> "recv", data |-> <<>>]

\* What follows the "with wave.open(...)" block: "await ws.send(mulaw_bytes)".
\* (Variant: the audio is not sent, the control message goes first.)
AfterTranscodeSkipsAudio == "asr_send_control"
AfterTranscode == "asr_send_audio"

\* "except Exception as e:" of local_asr_transcribe
\* (Variant: an except clause for connection errors only.)
AsrCatchesConnectOnly(exc) == exc \in ConnectErrors
AsrCatches(exc) == exc \in ExceptionTypes

\* Leaving "async with websockets.connect(...) as ws" closes the connection.
\* (Variant: the connection is not closed when the block is left.)
ConnsLeftOpen(n) == n
ConnsAfterExit(n) == n - 1

\* ------------------------------------------------------ dialogue replies
\* The values one iteration of "for response in bot_responses" can bind:
\* an object with or without a "text" member, a number, null, and a str that
\* does or does not contain the substring "text".
ItemKinds == {"obj_text", "obj_notext", "num", "null", "str_text", "str_plain"}
StrKinds == {"str_text", "str_plain"}

\* The value "await resp.json()" returns.  For an array `items` are its
\* elements, for an object its keys, for a string its characters.
BotResponses ==
    {[kind |-> "array", items |-> s] : s \in SeqsUpTo(ItemKinds, MaxReplies)}
    \cup {[kind |-> "object", items |-> s] : s \in SeqsUpTo(StrKinds, MaxReplies)}
    \cup {[kind |-> "string", items |-> s] : s \in SeqsUpTo({"str_plain"}, MaxReplies)}
    \cup {[kind |-> k, items |-> <<>>] : k \in {"number", "null"}}

\* No reply has been received in the current step.
NoBotResponse == [kind |-> "none", items |-> <<>>]

\* A reply in the sense of the dialogue contract: an array of objects.
WellFormed(v) ==
    v.kind = "array" /\ \A i \in 1..Len(v.items) : v.items[i] \in {"obj_text", "obj_notext"}

\* iter(bot_responses): a list, a dict (its keys) and a str (its characters)
\* are iterable; a number and None are not.
Iterable(v) == v.kind \in {"array", "object", "string"}

\* The order in which the for loop visits positions 1..n.
\* (Variant: the positions visited from the last to the first.)
IterOrderReversed(n) == [i \in 1..n |-> n + 1 - i]
IterOrder(n) == [i \in 1..n |-> i]

\* What remains to visit once the body of the for loop has run for a reply.
\* (Variant: the loop is left after the first reply it handles.)
AfterReplyBreaks(p) == <<>>
AfterReply(p) == Tail(p)

\* "'text' in response": membership for a dict, substring test for a str,
\* TypeError for a number and for None.
HasText(item) ==
    IF item \in {"num", "null"} THEN "TypeError"
    ELSE IF item \in {"obj_text", "str_text"} THEN "yes" ELSE "no"

\* "response['text']": a str cannot be indexed by a str.
CanIndexText(item) == item = "obj_text"

\* "except Exception as e:" around the dialogue request
RasaCatches(exc) == exc \in ExceptionTypes

\* ---------------------------------------------------------------- TTS
\* The chunks the engine may yield: byte strings, the empty one included.
Chunks == {<<>>, <<0>>, <<255>>, <<0, 255>>}

\* (Variant: each chunk is put in front of what has arrived.)
RECURSIVE ConcatPrepending(_)
ConcatPrepending(chunks) ==
    IF chunks = <<>> THEN <<>> ELSE ConcatPrepending(Tail(chunks)) \o Head(chunks)
RECURSIVE Concat(_)
Concat(chunks) == IF chunks = <<>> THEN <<>> ELSE Head(chunks) \o Concat(Tail(chunks))

\* "except Exception as e:" of neutts_synthesize
\* (Variant: no except clause.)
TtsCatchesNothing(exc) == FALSE
TtsCatches(exc) == exc \in ExceptionTypes

\* The except branch prints "TTS Error" and the traceback.
\* (Variant: an except branch that prints nothing.)
TtsExceptSilent == <<>>
TtsExceptLog == <<"tts_error_logged">>

\* "if not ulaw_data: return b''", else the expansion of the whole buffer.
SynthResult(ulaw_data) ==
    IF ulaw_data = <<>> THEN <<>> ELSE Ulaw2Lin(ulaw_data)

\* "return b''" of the except branch, whatever had arrived before the engine
\* raised.
\* (Variant: the branch returns the expansion of what had arrived.)
TtsExceptResultPartial(ulaw_data) == Ulaw2Lin(ulaw_data)
TtsExceptResult(ulaw_data) == <<>>

\* Python truthiness of a str or bytes value: "if not transcript", "if pcm_audio".
\* (Variant: the test dropped.)
TruthyAlways(x) == TRUE
Truthy(x) == x # <<>>

\* The for loop over CONVERSATION_STEPS binds the steps in list order.
\* (Variant: every other step.)
StepAfterSkipping(i) == IF i + 2 <= NumSteps + 1 THEN i + 2 ELSE i + 1
StepAfter(i) == i + 1

\* Where "continue" resumes: the head of the loop over CONVERSATION_STEPS.
\* (Variant: a return in place of the continue.)
ContinueAborts == "halted"
ContinueTarget == "loop"

\* ------------------------------------------------------------------ state
VARIABLES
    pc,           \* where run_demo (or the adapter it awaits) stands
    passed,       \* the pre-flight checks that succeeded, in order
    stepIdx,      \* 1-based position of the loop in CONVERSATION_STEPS
    done,         \* the steps the loop has left, in the order it left them
    trace,        \* what the current (at "loop": the last) step did and printed
    conns,        \* connections to the ASR server that are open
    wire,         \* the sends and receives on the connection of the current call
    wav,          \* the WAV file as read (header only once `frames` is dead)
    frames,       \* local `frames` after transcoding: the encoder's input
    mulaw_bytes,  \* local `mulaw_bytes`
    asrResp,      \* the message ws.recv() returned
    transcript,   \* local `transcript` of run_demo
    bot_responses, \* local `bot_responses` of run_demo: the reply of the step
    pending,      \* what remains of the iteration over bot_responses
    chunks,       \* the chunks the engine has yielded to neutts_synthesize
    engine,       \* the engine's generator: "idle", "running", "exhausted", "raised"
    pcm_audio,    \* local `pcm_audio` of run_demo
    fatal,        \* the exception that left run_demo, "none" if none did
    fatalIn       \* the function that let it through

vars ==
    <<pc, passed, stepIdx, done, trace, conns, wire, wav, frames, mulaw_bytes, asrResp,
      transcript, bot_responses, pending, chunks, engine, pcm_audio, fatal, fatalIn>>

stepVars == <<stepIdx, done>>
asrLocals == <<wire, wav, frames, mulaw_bytes, asrResp>>
ttsVars == <<chunks, engine, pcm_audio>>
fatalVars == <<fatal, fatalIn>>

\* One entry of the trace: an external effect or a line printed to the console.
Ev(e, i, v) == [ev |-> e, step |-> stepIdx, idx |-> i, val |-> v]

\* bytearray ulaw_data: the chunks in arrival order.
ulaw_data == Concat(chunks)

Init ==
    /\ pc = "check_ollama"
    /\ passed = <<>>
    /\ stepIdx = 1
    /\ done = <<>>
    /\ trace = <<>>
    /\ conns = 0
    /\ wire = <<>>
    /\ wav = NoWav
    /\ frames = <<>>
    /\ mulaw_bytes = <<>>
    /\ asrResp = NoResponse
    /\ transcript = <<>>
    /\ bot_responses = NoBotResponse
    /\ pending = <<>>
    /\ chunks = <<>>
    /\ engine = "idle"
    /\ pcm_audio = <<>>
    /\ fatal = "none"
    /\ fatalIn = "none"

\* ------------------------------------------------------ pre-flight checks
\* The checks of run_demo in the order it makes them.
AllChecks == <<"ollama", "asr", "rasa", "tts", "audio_dir">>

\* A failed check updates the status panel, sleeps 5 s and returns; a check
\* that succeeded lets run_demo go on to the next one.
\* (Variant: the "return" is missing and run_demo goes on after a failure.)
AfterCheckIgnoresFailure(ok, next) == next
AfterCheck(ok, next) == IF ok THEN next ELSE "halted"

Checked(name, ok, next) ==
    /\ pc' = AfterCheck(ok, next)
    /\ passed' = IF ok THEN Append(passed, name) ELSE passed

\* "if not check_ollama_connection(): ... return"
CheckOllama ==
    /\ pc = "check_ollama"
    /\ \E ok \in BOOLEAN : Checked("ollama", ok, "check_asr")
    /\ UNCHANGED <<stepVars, trace, conns, asrLocals, transcript, bot_responses, pending, ttsVars, fatalVars>>

\* check_asr_connection: "async with websockets.connect(..., open_timeout=2)"
CheckAsrOpen ==
    /\ pc = "check_asr"
    /\ \E ok \in BOOLEAN :
        /\ pc' = AfterCheck(ok, "check_asr_close")
        /\ conns' = IF ok THEN conns + 1 ELSE conns
    /\ UNCHANGED passed
    /\ UNCHANGED <<stepVars, trace, asrLocals, transcript, bot_responses, pending, ttsVars, fatalVars>>

\* "await ws.close(); return True"
CheckAsrClose ==
    /\ pc = "check_asr_close"
    /\ conns' = conns - 1
    /\ Checked("asr", TRUE, "check_rasa")
    /\ UNCHANGED <<stepVars, trace, asrLocals, transcript, bot_responses, pending, ttsVars, fatalVars>>

\* "if not check_rasa_connection(): ... return"
CheckRasa ==
    /\ pc = "check_rasa"
    /\ \E ok \in BOOLEAN : Checked("rasa", ok, "init_tts")
    /\ UNCHANGED <<stepVars, trace, conns, asrLocals, transcript, bot_responses, pending, ttsVars, fatalVars>>

\* NeuTTSService(tts_config) inside try/except Exception
InitTts ==
    /\ pc = "init_tts"
    /\ \E ok \in BOOLEAN : Checked("tts", ok, "check_audio_dir")
    /\ UNCHANGED <<stepVars, trace, conns, asrLocals, transcript, bot_responses, pending, ttsVars, fatalVars>>

\* "if not AUDIO_DIR.exists(): ... return"
CheckAudioDir ==
    /\ pc = "check_audio_dir"
    /\ \E ok \in BOOLEAN : Checked("audio_dir", ok, "loop")
    /\ UNCHANGED <<stepVars, trace, conns, asrLocals, transcript, bot_responses, pending, ttsVars, fatalVars>>

\* --------------------------------------------------- the conversation loop
\* "continue": the loop leaves the current step and resumes at its head.
Continue ==
    /\ done' = Append(done, stepIdx)
    /\ stepIdx' = StepAfter(stepIdx)
    /\ pc' = ContinueTarget

\* An exception nobody catches leaves run_demo; __main__ prints "Fatal error"
\* and exits with status 1.
Propagate(exc, from) ==
    /\ pc' = "fatal"
    /\ fatal' = exc
    /\ fatalIn' = from

\* "for step in CONVERSATION_STEPS": the next step, and the check that its
\* audio file exists.
StepBegin ==
    /\ pc = "loop"
    /\ UNCHANGED passed
    /\ stepIdx <= NumSteps
    /\ \E exists \in BOOLEAN :
        IF exists
        THEN /\ pc' = "play_user"
             /\ trace' = <<>>
             /\ UNCHANGED stepVars
        ELSE /\ trace' = <<Ev("missing_logged", 0, "")>>
             /\ Continue
    /\ asrResp' = NoResponse
    /\ bot_responses' = NoBotResponse
    /\ UNCHANGED <<conns, wire, wav, frames, mulaw_bytes, transcript, pending, ttsVars, fatalVars>>

\* The loop is exhausted: the "Demo Complete" panel.
DemoComplete ==
    /\ pc = "loop"
    /\ UNCHANGED <<passed, bot_responses>>
    /\ stepIdx > NumSteps
    /\ pc' = "complete"
    /\ UNCHANGED <<stepVars, trace, conns, asrLocals, transcript, pending, ttsVars, fatalVars>>

\* "play(AudioSegment.from_wav(str(audio_path)))", then the call of
\* local_asr_transcribe.
PlayUser ==
    /\ pc = "play_user"
    /\ UNCHANGED <<passed, bot_responses>>
    /\ trace' = trace \o <<Ev("play_user", 0, ""), Ev("transcribe_call", 0, "")>>
    /\ pc' = "asr_connect"
    /\ UNCHANGED <<stepVars, conns, asrLocals, transcript, pending, ttsVars, fatalVars>>

\* ------------------------------------------------- local_asr_transcribe
\* The value local_asr_transcribe hands back to run_demo.
AsrReturn(value, printed) ==
    /\ transcript' = value
    /\ trace' = trace \o printed
                \o <<Ev("transcribe_return", 0, IF value = <<>> THEN "empty" ELSE "text")>>
    /\ pc' = "check_transcript"
    /\ UNCHANGED fatalVars

\* An exception raised inside the try block: the async with block (if
\* entered) is left first, then the except clause decides.
AsrRaise(exc, entered) ==
    /\ conns' = IF entered THEN ConnsAfterExit(conns) ELSE conns
    /\ IF AsrCatches(exc)
       THEN AsrReturn(<<>>, <<Ev("asr_error_logged", 0, exc)>>)
       ELSE Propagate(exc, "local_asr_transcribe") /\ UNCHANGED <<transcript, trace>>

\* "async with websockets.connect(LOCAL_ASR_URL, open_timeout=5) as ws"
AsrConnect ==
    /\ pc = "asr_connect"
    /\ UNCHANGED <<passed, bot_responses>>
    /\ \/ /\ conns' = conns + 1
          /\ pc' = "asr_read"
          /\ UNCHANGED <<trace, transcript, fatalVars>>
       \/ \E exc \in ConnectErrors : AsrRaise(exc, FALSE)
    /\ UNCHANGED <<stepVars, asrLocals, pending, ttsVars>>

\* The "with wave.open(...)" block: read the file, then transcode it.
AsrReadTranscode ==
    /\ pc = "asr_read"
    /\ UNCHANGED <<passed, bot_responses>>
    /\ \/ \E exc \in ReadErrors :
            /\ AsrRaise(exc, TRUE)
            /\ UNCHANGED <<wav, frames, mulaw_bytes>>
       \/ \E w \in WavFiles :
            LET t == Transcode(w)
            IN  /\ wav' = w
                /\ IF t.raised # "none"
                   THEN /\ AsrRaise(t.raised, TRUE)
                        /\ UNCHANGED <<frames, mulaw_bytes>>
                   ELSE /\ frames' = t.frames
                        /\ mulaw_bytes' = t.mulaw
                        /\ pc' = AfterTranscode
                        /\ UNCHANGED <<conns, trace, transcript, fatalVars>>
    /\ UNCHANGED <<stepVars, wire, asrResp, pending, ttsVars>>

\* "await ws.send(mulaw_bytes)".  The samples are dead from here on; the
\* header fields of the file are kept.
AsrSendAudio ==
    /\ pc = "asr_send_audio"
    /\ UNCHANGED <<passed, bot_responses>>
    /\ \/ /\ wire' = Append(wire, AudioMessage(mulaw_bytes))
          /\ pc' = "asr_send_control"
          /\ UNCHANGED <<conns, trace, transcript, fatalVars>>
       \/ AsrRaise("ConnectionClosed", TRUE) /\ UNCHANGED wire
    /\ wav' = [wav EXCEPT !.frames = <<>>]
    /\ frames' = <<>>
    /\ UNCHANGED <<stepVars, mulaw_bytes, asrResp, pending, ttsVars>>

\* "await ws.send(json.dumps({"action": "transcribe"}))"
AsrSendControl ==
    /\ pc = "asr_send_control"
    /\ UNCHANGED <<passed, bot_responses>>
    /\ \/ /\ wire' = Append(wire, ControlMessage)
          /\ pc' = "asr_recv"
          /\ UNCHANGED <<conns, trace, transcript, fatalVars>>
       \/ AsrRaise("ConnectionClosed", TRUE) /\ UNCHANGED wire
    /\ UNCHANGED <<stepVars, wav, frames, mulaw_bytes, asrResp, pending, ttsVars>>

\* "response = await ws.recv()": the one receive of the call, which returns a
\* message or fails.
AsrRecv ==
    /\ pc = "asr_recv"
    /\ UNCHANGED <<passed, bot_responses>>
    /\ wire' = Append(wire, RecvCall)
    /\ \/ \E r \in AsrResponses :
            /\ asrResp' = r
            /\ pc' = "asr_parse"
            /\ UNCHANGED <<conns, trace, transcript, fatalVars>>
       \/ AsrRaise("ConnectionClosed", TRUE) /\ UNCHANGED asrResp
    /\ UNCHANGED <<stepVars, wav, frames, mulaw_bytes, pending, ttsVars>>

\* "data = json.loads(response); return data.get("text", "").strip()"
AsrParse ==
    /\ pc = "asr_parse"
    /\ UNCHANGED <<passed, bot_responses>>
    /\ LET r == ParseResponse(asrResp)
       IN  IF r.raised # "none"
           THEN AsrRaise(r.raised, TRUE)
           ELSE /\ conns' = ConnsAfterExit(conns)
                /\ AsrReturn(r.value, <<>>)
    /\ UNCHANGED <<stepVars, asrLocals, pending, ttsVars>>

\* "if not transcript: ...; continue".  The adapter's locals are gone.
CheckTranscript ==
    /\ pc = "check_transcript"
    /\ UNCHANGED <<passed, bot_responses>>
    /\ IF Truthy(transcript)
       THEN /\ pc' = "post"
            /\ UNCHANGED <<stepVars, trace, transcript, asrResp>>
       ELSE /\ trace' = Append(trace, Ev("no_transcript_logged", 0, ""))
            /\ Continue
            /\ UNCHANGED <<transcript, asrResp>>
    /\ wire' = <<>>
    /\ wav' = NoWav
    /\ mulaw_bytes' = <<>>
    /\ UNCHANGED <<conns, frames, pending, ttsVars, fatalVars>>

\* ------------------------------------------------------ dialogue request
\* "session.post(RASA_URL, json={...}, timeout=30)" inside try/except
\* Exception: the request fails, answers with another status than 200,
\* answers with a body resp.json() rejects, or answers with a JSON value.
Post ==
    /\ pc = "post"
    /\ UNCHANGED passed
    /\ \/ \E exc \in {"ClientError", "TimeoutError", "ContentTypeError", "JSONDecodeError"} :
            /\ trace' = trace \o <<Ev("post", 0, ""), Ev("rasa_failed_logged", 0, exc)>>
            /\ IF RasaCatches(exc)
               THEN Continue /\ UNCHANGED fatalVars
               ELSE Propagate(exc, "run_demo") /\ UNCHANGED stepVars
            /\ pending' = <<>>
            /\ UNCHANGED bot_responses
       \/ /\ trace' = trace \o <<Ev("post", 0, ""), Ev("rasa_error_logged", 0, "")>>
          /\ Continue
          /\ pending' = <<>>
          /\ UNCHANGED <<bot_responses, fatalVars>>
       \/ \E v \in BotResponses :
            /\ bot_responses' = v
            /\ trace' = trace \o <<Ev("post", 0, ""), Ev("replies", Len(v.items),
                                                 IF WellFormed(v) THEN "well-formed" ELSE "malformed")>>
            /\ IF Iterable(v)
               THEN /\ pending' = [k \in 1..Len(v.items) |->
                                     [pos |-> IterOrder(Len(v.items))[k],
                                      item |-> v.items[IterOrder(Len(v.items))[k]]]]
                    /\ pc' = "replies"
                    /\ UNCHANGED fatalVars
               ELSE /\ pending' = <<>>
                    /\ Propagate("TypeError", "run_demo")
            /\ UNCHANGED stepVars
    /\ transcript' = <<>>
    /\ asrResp' = NoResponse
    /\ UNCHANGED <<conns, wire, wav, frames, mulaw_bytes, ttsVars>>

\* One turn of "for response in bot_responses": "if 'text' in response",
\* "agent_text = response['text']", the call of neutts_synthesize.
NextReply ==
    /\ pc = "replies"
    /\ UNCHANGED <<passed, bot_responses>>
    /\ pending # <<>>
    /\ LET cur == Head(pending)
       IN  IF HasText(cur.item) = "TypeError" \/ (HasText(cur.item) = "yes" /\ ~CanIndexText(cur.item))
           THEN /\ Propagate("TypeError", "run_demo")
                /\ UNCHANGED <<trace, pending, engine>>
           ELSE IF HasText(cur.item) = "yes"
           THEN /\ trace' = Append(trace, Ev("synth_call", cur.pos, ""))
                /\ pc' = "synth"
                /\ engine' = "running"
                /\ UNCHANGED <<pending, fatalVars>>
           ELSE /\ trace' = Append(trace, Ev("no_text", cur.pos, ""))
                /\ pending' = AfterReply(pending)
                /\ UNCHANGED <<pc, engine, fatalVars>>
    /\ UNCHANGED <<stepVars, conns, asrLocals, transcript, chunks, pcm_audio>>

\* The for loop is exhausted: "time.sleep(0.5)" and the next step.
StepEnd ==
    /\ pc = "replies"
    /\ UNCHANGED <<passed, bot_responses>>
    /\ pending = <<>>
    /\ done' = Append(done, stepIdx)
    /\ stepIdx' = StepAfter(stepIdx)
    /\ pc' = "loop"
    /\ UNCHANGED <<trace, conns, asrLocals, transcript, pending, ttsVars, fatalVars>>

\* ---------------------------------------------------- neutts_synthesize
\* The value neutts_synthesize hands back to run_demo.
SynthReturn(value, printed) ==
    /\ pcm_audio' = value
    /\ trace' = trace \o [i \in 1..Len(printed) |-> Ev(printed[i], Head(pending).pos, "")]
                \o <<Ev("synth_return", Head(pending).pos,
                        IF value = <<>> THEN "empty" ELSE "audio")>>
    /\ pc' = "check_pcm"
    /\ UNCHANGED fatalVars

\* "async for chunk in tts_service.synthesize(text): ulaw_data.extend(chunk)"
SynthChunk ==
    /\ pc = "synth"
    /\ UNCHANGED <<passed, bot_responses>>
    /\ Len(chunks) < MaxChunks
    /\ \E c \in Chunks : chunks' = Append(chunks, c)
    /\ UNCHANGED <<pc, stepVars, trace, conns, asrLocals, transcript, pending, engine, pcm_audio,
                   fatalVars>>

\* The engine raises, at the call or between two chunks.
SynthRaise ==
    /\ pc = "synth"
    /\ UNCHANGED <<passed, bot_responses>>
    /\ engine' = "raised"
    /\ IF TtsCatches("RuntimeError")
       THEN SynthReturn(TtsExceptResult(ulaw_data), TtsExceptLog)
       ELSE /\ Propagate("RuntimeError", "neutts_synthesize")
            /\ UNCHANGED <<trace, pcm_audio>>
    /\ UNCHANGED <<stepVars, conns, asrLocals, transcript, pending, chunks>>

\* The engine is exhausted: "if not ulaw_data: return b''", else ulaw2lin.
SynthEnd ==
    /\ pc = "synth"
    /\ UNCHANGED <<passed, bot_responses>>
    /\ engine' = "exhausted"
    /\ SynthReturn(SynthResult(ulaw_data), <<>>)
    /\ UNCHANGED <<stepVars, conns, asrLocals, transcript, pending, chunks>>

\* "if pcm_audio: play(AudioSegment(data=pcm_audio, ...))".  The adapter's
\* chunks and the buffer are dead afterwards.
PlayAgent ==
    /\ pc = "check_pcm"
    /\ UNCHANGED <<passed, bot_responses>>
    /\ trace' = IF Truthy(pcm_audio)
                THEN Append(trace, Ev("play_agent", Head(pending).pos, ""))
                ELSE trace
    /\ pcm_audio' = <<>>
    /\ chunks' = <<>>
    /\ engine' = "idle"
    /\ pending' = AfterReply(pending)
    /\ pc' = "replies"
    /\ UNCHANGED <<stepVars, conns, asrLocals, transcript, fatalVars>>

Next ==
    \/ CheckOllama \/ CheckAsrOpen \/ CheckAsrClose \/ CheckRasa \/ InitTts
    \/ CheckAudioDir
    \/ StepBegin \/ DemoComplete \/ PlayUser
    \/ AsrConnect \/ AsrReadTranscode \/ AsrSendAudio \/ AsrSendControl
    \/ AsrRecv \/ AsrParse \/ CheckTranscript
    \/ Post \/ NextReply \/ StepEnd
    \/ SynthChunk \/ SynthRaise \/ SynthEnd \/ PlayAgent

Spec == Init /\ [][Next]_vars

\* Every await returns or fails: the coroutine takes its next step whenever it
\* has one.
LiveSpec == Spec /\ WF_vars(Next)

\* -------------------------------------------------------------- properties
Last(s) == s[Len(s)]
HasEv(e) == \E i \in 1..Len(trace) : trace[i].ev = e
\* A str that is non-empty after trimming: it holds a non-whitespace character.
NonBlank(s) == \E i \in 1..Len(s) : s[i] # " "
\* The event just before the last one ("none" if there is none).
Before(i) == IF i > 1 THEN trace[i - 1].ev ELSE "none"
AllSteps == [i \in 1..NumSteps |-> i]

\* C1: local_asr_transcribe never lets an exception through to run_demo, and
\* what it returns is non-empty only if a response was received that is a JSON
\* object whose "text" member is a string with a non-whitespace character (and
\* no failure was reported); after every failure it returns the empty string.
C1_AsrNeverRaises ==
    /\ fatalIn # "local_asr_transcribe"
    /\ pc = "check_transcript" =>
        /\ Last(trace).ev = "transcribe_return"
        /\ Before(Len(trace)) = "asr_error_logged" => transcript = <<>>
        /\ transcript # <<>> =>
            /\ asrResp.kind = "object" /\ asrResp.hasText /\ asrResp.textType = "str"
            /\ NonBlank(asrResp.text)
            /\ ~HasEv("asr_error_logged")

\* A response whose "text" is a number makes .strip() fail; the call has
\* returned the empty string and closed the connection.
C1_Witness ==
    /\ pc = "check_transcript"
    /\ asrResp.kind = "object" /\ asrResp.textType = "number"
    /\ transcript = <<>>
    /\ Before(Len(trace)) = "asr_error_logged"

\* The stage of the step an event belongs to.
Stage(e) ==
    CASE e.ev = "missing_logged" -> 0
      [] e.ev = "play_user" -> 1
      [] e.ev \in {"transcribe_call", "asr_error_logged", "transcribe_return",
                   "no_transcript_logged"} -> 2
      [] e.ev \in {"post", "rasa_failed_logged", "rasa_error_logged", "replies"} -> 3
      [] OTHER -> 4
\* The order of the events of one reply.
SubStage(e) ==
    CASE e.ev \in {"synth_call", "no_text"} -> 1
      [] e.ev = "tts_error_logged" -> 2
      [] e.ev = "synth_return" -> 3
      [] OTHER -> 4
IsVisit(e) == e.ev \in {"synth_call", "no_text"}
Visits == SelectSeq(trace, IsVisit)

\* C2: within one step the user audio is played, then transcribe is called, then
\* the dialogue request is sent, then the replies are visited in array order,
\* each reply with a text synthesized and then played before the next reply's
\* synthesis begins; no event of an earlier stage follows one of a later stage.
C2_StepOrder ==
    /\ \A i, j \in 1..Len(trace) : i < j =>
        /\ Stage(trace[i]) <= Stage(trace[j])
        /\ ~(trace[i].ev = trace[j].ev /\ trace[i].ev \in {"play_user", "transcribe_call", "post"})
        /\ (Stage(trace[i]) = 4 /\ Stage(trace[j]) = 4) =>
            \/ trace[i].idx < trace[j].idx
            \/ trace[i].idx = trace[j].idx /\ SubStage(trace[i]) < SubStage(trace[j])
    /\ \A k \in 1..Len(Visits) : Visits[k].idx = k
    /\ \A i \in 1..Len(trace) :
        /\ trace[i].ev = "transcribe_call" => Before(i) = "play_user"
        /\ trace[i].ev = "post" => Before(i) = "transcribe_return"
        /\ trace[i].ev = "synth_call" => HasEv("post")
        /\ trace[i].ev = "play_agent" =>
            /\ Before(i) = "synth_return"
            /\ trace[i - 1].idx = trace[i].idx

\* A step whose two replies were both synthesized and played.
C2_Witness ==
    /\ pc = "loop"
    /\ \E i, j \in 1..Len(trace) :
        /\ i < j
        /\ trace[i].ev = "play_agent" /\ trace[i].idx = 1
        /\ trace[j].ev = "play_agent" /\ trace[j].idx = 2

\* The trace of a step the loop has left: the step was skipped, or every reply
\* of its reply array was visited, every synthesis returned and every
\* non-empty buffer was played.
SkipLogs == {"missing_logged", "no_transcript_logged", "rasa_failed_logged", "rasa_error_logged"}
StepClosed ==
    \/ Last(trace).ev \in SkipLogs
    \/ /\ \E i \in 1..Len(trace) : trace[i].ev = "replies" /\ trace[i].idx = Len(Visits)
       /\ \A i \in 1..Len(trace) :
            /\ trace[i].ev = "synth_call" =>
                \E j \in (i + 1)..Len(trace) :
                    trace[j].ev = "synth_return" /\ trace[j].idx = trace[i].idx
            /\ (trace[i].ev = "synth_return" /\ trace[i].val = "audio") =>
                /\ i < Len(trace)
                /\ trace[i + 1].ev = "play_agent" /\ trace[i + 1].idx = trace[i].idx

\* C3: the steps run one at a time in the order of CONVERSATION_STEPS: the loop
\* has left exactly the steps before the current one, in order; every event on
\* record belongs to the one step in progress (or, at the head of the loop, to
\* the step just left, which is then skipped or has all its replies played).
C3_StepsSerial ==
    /\ done = [i \in 1..Len(done) |-> i]
    /\ stepIdx = Len(done) + 1
    /\ \A i \in 1..Len(trace) :
        trace[i].step = IF pc \in {"loop", "complete"} THEN Len(done) ELSE stepIdx
    /\ (pc \in {"loop", "complete"} /\ done # <<>>) => StepClosed

\* The third step is about to begin after a step whose reply was played.
C3_Witness ==
    /\ pc = "loop"
    /\ done = <<1, 2>>
    /\ HasEv("play_agent")

\* No dialogue reply of status 200 is malformed (the failures of C4 are a
\* missing file, an empty transcript, a failed or non-200 request and a failed
\* synthesis).
NoMalformedReply ==
    \A i \in 1..Len(trace) : trace[i].ev = "replies" => trace[i].val = "well-formed"

\* C4: once the pre-flight checks have passed, and with every await returning
\* or failing, run_demo reaches "Demo Complete" having left all five steps in
\* order, whatever steps had a missing file, an empty transcript, a failed or
\* non-200 dialogue request or a failed synthesis.
C4_RunCompletes ==
    []NoMalformedReply =>
        ((pc = "loop" /\ done = <<>>) ~> (pc = "complete" /\ done = AllSteps))

\* The run is complete and its last step was skipped for a failed request.
C4_Witness ==
    /\ pc = "complete"
    /\ done = AllSteps
    /\ Last(trace).ev = "rasa_failed_logged"

\* C5 (as claimed, for a file that holds audio): a WAV file with a channel
\* count other than 1 or 2 makes transcoding fail: no audio message is sent and
\* transcribe returns "".
C5_UnsupportedChannelsRejected ==
    (wav.nchannels \notin {0, 1, 2} /\ mulaw_bytes # <<>>) =>
        /\ \A i \in 1..Len(wire) : wire[i].kind # "binary"
        /\ pc = "check_transcript" => transcript = <<>>

\* C6: neutts_synthesize never lets an exception through to run_demo; it
\* returns the empty buffer when the engine raised and when the chunks it
\* yielded are empty altogether, and the driver plays nothing for a reply
\* whose buffer is empty.
C6_SynthNeverRaises ==
    /\ fatalIn # "neutts_synthesize"
    /\ pc = "check_pcm" =>
        /\ (engine = "raised" \/ ulaw_data = <<>>) => pcm_audio = <<>>
        /\ Last(trace).val = "empty" <=> pcm_audio = <<>>
    /\ \A i, j \in 1..Len(trace) :
        (trace[i].ev = "synth_return" /\ trace[i].val = "empty" /\ trace[j].ev = "play_agent")
            => trace[j].idx # trace[i].idx

\* The engine raised, the empty buffer came back and the driver went on to the
\* next reply without playing.
C6_Witness ==
    /\ pc = "replies"
    /\ trace # <<>>
    /\ Last(trace).ev = "synth_return" /\ Last(trace).val = "empty"
    /\ Before(Len(trace)) = "tts_error_logged"

\* C7 (as claimed): every return of the empty buffer is preceded by the TTS
\* failure line.
C7_EveryEmptyReturnLogged ==
    \A i \in 1..Len(trace) :
        (trace[i].ev = "synth_return" /\ trace[i].val = "empty")
            => Before(i) = "tts_error_logged"

\* C7 (amended): the TTS failure line is printed before the return exactly
\* when the engine raised (the buffer is then empty); when the engine is
\* exhausted without having yielded a byte, the empty buffer is returned and
\* nothing is printed.
C7_LoggedIffRaised ==
    pc = "check_pcm" =>
        /\ Last(trace).ev = "synth_return"
        /\ engine = "raised" =>
            /\ pcm_audio = <<>>
            /\ Before(Len(trace)) = "tts_error_logged"
            /\ trace[Len(trace) - 1].idx = Last(trace).idx
        /\ engine # "raised" => Before(Len(trace)) # "tts_error_logged"

\* The engine raised after a chunk; the failure was printed, then the empty
\* buffer returned.
C7_Witness ==
    /\ pc = "check_pcm"
    /\ engine = "raised"
    /\ ulaw_data # <<>>
    /\ Before(Len(trace)) = "tts_error_logged"

\* C8 (as claimed): a malformed reply of status 200 is an empty result: no
\* exception leaves the step and nothing is synthesized or played.
C8_MalformedReplyIsEmptyResult ==
    (\E i \in 1..Len(trace) : trace[i].ev = "replies" /\ trace[i].val = "malformed") =>
        /\ pc # "fatal"
        /\ ~HasEv("synth_call")
        /\ ~HasEv("play_agent")

\* C9: an empty transcript (a "text" of whitespace only included) skips the
\* step: the skip is printed, nothing is sent to the dialogue server,
\* synthesized or played, and the loop is at its head for the next step.
C9_EmptyTranscriptSkips ==
    /\ pc = "check_transcript" =>
        /\ Last(trace).val = "empty" <=> transcript = <<>>
        /\ (asrResp.kind = "object" /\ asrResp.textType = "str" /\ ~NonBlank(asrResp.text))
            => transcript = <<>>
    /\ pc = "post" => transcript # <<>>
    /\ \A i \in 1..Len(trace) :
        (trace[i].ev = "transcribe_return" /\ trace[i].val = "empty") =>
            \/ i = Len(trace) /\ pc = "check_transcript"
            \/ /\ i + 1 = Len(trace)
               /\ trace[i + 1].ev = "no_transcript_logged"
               /\ pc \in {"loop", "complete"}
               /\ done # <<>> /\ Last(done) = trace[i].step
               /\ stepIdx = trace[i].step + 1

\* A response whose "text" is one blank was trimmed to "", and the step was
\* skipped.
C9_Witness ==
    /\ pc = "loop"
    /\ trace # <<>>
    /\ Last(trace).ev = "no_transcript_logged"
    /\ asrResp.textType = "str" /\ asrResp.text = <<" ">>

\* Where the program is inside an "async with websockets.connect(...)" block.
InsideConnection ==
    pc \in {"check_asr_close", "asr_read", "asr_send_audio", "asr_send_control",
            "asr_recv", "asr_parse"}

\* C10: a connection to the ASR server is open only inside the call that
\* opened it: at most one at any time, none once the call has returned on any
\* path.
C10_ConnectionPerCall ==
    /\ conns \in {0, 1}
    /\ conns = 1 <=> InsideConnection

\* The call failed in transcoding, after the connection was opened, and has
\* returned with the connection closed.
C10_Witness ==
    /\ pc = "check_transcript"
    /\ conns = 0
    /\ Before(Len(trace)) = "asr_error_logged"
    /\ trace[Len(trace) - 1].val = "audioop.error"

\* The exchange of one call in the order the connection sees it.
Exchange == <<AudioMessage(mulaw_bytes), ControlMessage, RecvCall>>
\* How much of the exchange has happened at each place of the call (at the
\* return it is whatever the call got to).
Progress ==
    CASE pc \in {"asr_read", "asr_send_audio"} -> {0}
      [] pc = "asr_send_control" -> {1}
      [] pc = "asr_recv" -> {2}
      [] pc = "asr_parse" -> {3}
      [] pc = "check_transcript" -> 0..3
      [] OTHER -> {0}
\* The failure the call reported, if any ("none" otherwise).
AsrFailure ==
    IF pc = "check_transcript" /\ Before(Len(trace)) = "asr_error_logged"
    THEN trace[Len(trace) - 1].val ELSE "none"

\* C11: on the connection of one call the traffic is a prefix of: one binary
\* message holding the whole mu-law audio, one control message
\* {"action": "transcribe"}, one receive. So the control message never goes
\* before the audio, nothing is sent after the receive, a call that returns
\* without a reported failure did all three exactly once, and a call that
\* failed in reading or transcoding the file sent nothing.
C11_WireProtocol ==
    /\ Len(wire) \in Progress
    /\ \A i \in 1..Len(wire) :
        /\ wire[i].kind = Exchange[i].kind
        /\ wire[i].data = Exchange[i].data
    /\ (pc = "check_transcript" /\ AsrFailure = "none") => Len(wire) = 3
    /\ AsrFailure \in ReadErrors \cup {"audioop.error"} => wire = <<>>
    /\ AsrFailure \in ConnectErrors => wire = <<>>

\* A call that sent non-empty audio, then the control message, received a
\* response and returned a transcript.
C11_Witness ==
    /\ pc = "check_transcript"
    /\ transcript # <<>>
    /\ Len(wire) = 3
    /\ wire[1].kind = "binary" /\ wire[1].data # <<>>
    /\ wire[2] = ControlMessage

\* The places of run_demo before its conversation loop.
PreflightPcs ==
    {"check_ollama", "check_asr", "check_asr_close", "check_rasa", "init_tts",
     "check_audio_dir"}

\* C12: a run that has returned from a failed pre-flight check has begun no
\* conversation step (nothing played, transcribed, requested or synthesized,
\* no step left), and the run is in or past the conversation loop only when
\* all five checks succeeded, in their order.
C12_PreflightGate ==
    /\ pc = "halted" =>
        /\ Len(passed) < Len(AllChecks)
        /\ trace = <<>> /\ done = <<>> /\ stepIdx = 1
        /\ wire = <<>> /\ transcript = <<>> /\ pending = <<>> /\ chunks = <<>>
        /\ conns = 0
    /\ pc \notin PreflightPcs \cup {"halted"} => passed = AllChecks
    /\ passed # AllChecks => trace = <<>> /\ done = <<>>
    /\ \A i \in 1..Len(passed) : passed[i] = AllChecks[i]

\* The audio directory is missing: the four checks before it succeeded and
\* the run has returned.
C12_Witness ==
    /\ pc = "halted"
    /\ passed = <<"ollama", "asr", "rasa", "tts">>

\* The total length of the chunks, and the k-th byte the engine yielded,
\* counted through the chunks in the order they arrived.
RECURSIVE SumLen(_)
SumLen(cs) == IF cs = <<>> THEN 0 ELSE Len(Head(cs)) + SumLen(Tail(cs))
RECURSIVE ByteAt(_, _)
ByteAt(cs, k) ==
    IF k <= Len(Head(cs)) THEN Head(cs)[k] ELSE ByteAt(Tail(cs), k - Len(Head(cs)))
\* The 16-bit sample held by bytes 2k-1 and 2k of a little-endian buffer.
SampleAt(buf, k) ==
    LET u == buf[2 * k - 1] + 256 * buf[2 * k]
    IN  IF u >= 32768 THEN u - 65536 ELSE u

\* C13: when the engine is exhausted without raising, neutts_synthesize
\* returns two bytes of PCM for every mu-law byte of every chunk: the k-th
\* sample of the result is the expansion of the k-th byte yielded, counted in
\* arrival order, and the length is twice the sum of the chunk lengths.
C13_SynthExpandsAllChunks ==
    (pc = "check_pcm" /\ engine = "exhausted") =>
        /\ Len(pcm_audio) = 2 * SumLen(chunks)
        /\ \A k \in 1..SumLen(chunks) :
            SampleAt(pcm_audio, k) = UlawToLinear16(ByteAt(chunks, k))

\* Two chunks with different bytes arrived, 0 and then 0, 255, and the result
\* has six bytes.
C13_Witness ==
    /\ pc = "check_pcm"
    /\ engine = "exhausted"
    /\ chunks = <<(<<0>>), <<0, 255>>>>
    /\ Len(pcm_audio) = 6

\* C17: what neutts_synthesize returns is all or nothing: when the engine
\* raised after it had yielded bytes the result is the empty buffer, the
\* result is never the expansion of only some of the bytes that arrived, and
\* audio is played only for a reply whose synthesis returned audio without a
\* failure having been reported.
C17_AllOrNothing ==
    /\ pc = "check_pcm" =>
        /\ (engine = "raised" /\ SumLen(chunks) > 0) => pcm_audio = <<>>
        /\ Len(pcm_audio) \in {0, 2 * SumLen(chunks)}
        /\ pcm_audio # <<>> => engine = "exhausted"
    /\ \A i \in 1..Len(trace) :
        trace[i].ev = "play_agent" =>
            /\ Before(i) = "synth_return"
            /\ trace[i - 1].val = "audio" /\ trace[i - 1].idx = trace[i].idx
            /\ Before(i - 1) # "tts_error_logged"

\* The engine raised after the chunks 0, 255 and 0 had arrived: three bytes
\* were discarded and the empty buffer returned.
C17_Witness ==
    /\ pc = "check_pcm"
    /\ engine = "raised"
    /\ chunks = <<(<<0, 255>>), <<0>>>>
    /\ pcm_audio = <<>>

\* C14: a 16-bit stereo file of n frames at 16000 Hz is sent as
\* ceil(n / 2) mu-law bytes: one byte per sample after the mix to one channel
\* and the resampling to 8000 Hz.
C14_StereoSixteenKLength ==
    (pc = "asr_send_audio" /\ wav.nchannels = 2 /\ wav.rate = 16000 /\ wav.width = 2) =>
        LET n == Len(wav.frames) \div 2
        IN  /\ Len(wav.frames) = 2 * n
            /\ Len(mulaw_bytes) = (n + 1) \div 2

\* Three stereo frames at 16000 Hz were transcoded to two bytes.
C14_Witness ==
    /\ pc = "asr_send_audio"
    /\ wav.nchannels = 2 /\ wav.rate = 16000 /\ wav.width = 2
    /\ Len(wav.frames) = 6
    /\ Len(mulaw_bytes) = 2

\* The mean of the two channels of every frame of an interleaved stereo
\* buffer.
MixedDown(fr) == [i \in 1..(Len(fr) \div 2) |-> (fr[2 * i - 1] + fr[2 * i]) \div 2]

\* C15: the samples that reach the encoder are the file's frames, mixed to
\* one channel exactly when the file has 2 channels, and then resampled
\* exactly when its rate is not 8000 Hz; the bytes to send are the encoding of
\* those samples, one byte per sample.  For a mono 8000 Hz file the encoder
\* gets the file's frames unchanged.
C15_TranscodeOrder ==
    pc = "asr_send_audio" =>
        LET mono == IF wav.nchannels = 2 THEN MixedDown(wav.frames) ELSE wav.frames
            enc == IF wav.rate # 8000 THEN RateCv(mono, wav.rate, 8000) ELSE mono
        IN  /\ frames = enc
            /\ Len(mulaw_bytes) = Len(frames)
            /\ \A i \in 1..Len(frames) : mulaw_bytes[i] = Linear14ToUlaw(frames[i] \div 4)
            /\ (wav.nchannels = 1 /\ wav.rate = 8000) => frames = wav.frames

\* Two stereo frames at 16000 Hz, (1000, -1000) and (1000, 1000): the mix
\* gives 0 and 1000, the resampling keeps the first.  Resampling first would
\* have given 1000.
C15_Witness ==
    /\ pc = "asr_send_audio"
    /\ wav.nchannels = 2 /\ wav.rate = 16000
    /\ wav.frames = <<1000, -1000, 1000, 1000>>
    /\ frames = <<0>>

\* How often the current step did `e` for the reply at position p.
Count(e, p) == Cardinality({i \in 1..Len(trace) : trace[i].ev = e /\ trace[i].idx = p})
\* The for loop has finished with the reply at position p.
Handled(p) == \A k \in 1..Len(pending) : pending[k].pos # p
\* The synthesis for the reply at position p returned a non-empty buffer.
GotAudio(p) ==
    \E i \in 1..Len(trace) :
        trace[i].ev = "synth_return" /\ trace[i].idx = p /\ trace[i].val = "audio"

\* C16: within a step whose reply is an array of objects, every reply is
\* handled on its own: once the loop has finished with a reply, synthesis was
\* called exactly once for it if it has a "text" member and never otherwise,
\* and audio was played exactly once for it if that synthesis returned a
\* non-empty buffer and never otherwise, whatever happened to the replies
\* before it; a reply not reached yet has had neither; and the step ends only
\* when the loop has finished with every reply.
C16_RepliesIndependent ==
    (WellFormed(bot_responses) /\ pc \in {"replies", "synth", "check_pcm", "loop", "complete"}) =>
        /\ \A p \in 1..Len(bot_responses.items) :
            LET withText == bot_responses.items[p] = "obj_text"
            IN  IF Handled(p)
                THEN /\ Count("synth_call", p) = IF withText THEN 1 ELSE 0
                     /\ Count("synth_return", p) = Count("synth_call", p)
                     /\ Count("play_agent", p) = IF withText /\ GotAudio(p) THEN 1 ELSE 0
                ELSE /\ Count("play_agent", p) = 0
                     /\ p # Head(pending).pos => Count("synth_call", p) = 0
        /\ pc \in {"loop", "complete"} => pending = <<>>
        /\ \A i, j \in 1..Len(trace) :
            (i < j /\ trace[i].ev \in {"synth_call", "play_agent"}
                   /\ trace[j].ev \in {"synth_call", "play_agent"})
                => trace[i].idx <= trace[j].idx

\* Both replies of the step have text; the synthesis of the first failed and
\* nothing was played for it, the second was synthesized and played, and the
\* step has ended.
C16_Witness ==
    /\ pc = "loop"
    /\ bot_responses.kind = "array"
    /\ bot_responses.items = <<"obj_text", "obj_text">>
    /\ Count("tts_error_logged", 1) = 1
    /\ Count("play_agent", 1) = 0
    /\ Count("play_agent", 2) = 1
====
